---------------------------- MODULE Spec2Model ----------------------------
(***************************************************************************)
(* A model of baroque's METS validation (baroque/mets_validation.py) and   *)
(* its text helper (baroque/utils.py).                                     *)
(*                                                                         *)
(* Python strings are sequences of characters; a character is a one-letter *)
(* TLA+ string, and the three non-ASCII characters the code names are the  *)
(* tokens "LDQUO" (U+201C), "RDQUO" (U+201D) and "HELLIP" (U+2026); the    *)
(* grave accent is the token "GRAVE".                                      *)
(* Python's None, where a string is expected, is the value None below.     *)
(***************************************************************************)
EXTENDS Integers, Sequences, FiniteSets, TLC

VARIABLES
    project,        \* Project.items and Project.metadata["item_metadata"]
    disk,           \* what etree.parse finds at each item's METS path
    dateparser,     \* the behaviour of the external dateparser.parse
    idx,            \* position of validate_mets' for loop in Project.items
    pc,             \* where validate_mets is
    item_id,        \* self.item_id
    item_files,     \* self.item_files
    item_metadata,  \* self.item_metadata
    path_to_mets,   \* self.path_to_mets
    tree,           \* self.tree
    sink,           \* the findings recorded through self.error / self.warn
    ran,            \* history: the section validators called, in order, each
                    \* with the span of the sink it recorded and how it ended
    raised,         \* the exception that left validate_mets, or "none"
    arg,            \* the arguments of a helper called on its own
    ret             \* what that call returned and recorded

vars == <<project, disk, dateparser, idx, pc, item_id, item_files,
          item_metadata, path_to_mets, tree, sink, ran, raised, arg, ret>>

-----------------------------------------------------------------------------
(* Strings *)

None == <<"None">>

Ascii ==
    <<" ", "!", "\"", "#", "$", "%", "&", "'", "(", ")", "*", "+", ",", "-",
      ".", "/", "0", "1", "2", "3", "4", "5", "6", "7", "8", "9", ":", ";",
      "<", "=", ">", "?", "@", "A", "B", "C", "D", "E", "F", "G", "H", "I",
      "J", "K", "L", "M", "N", "O", "P", "Q", "R", "S", "T", "U", "V", "W",
      "X", "Y", "Z", "[", "\\", "]", "^", "_", "GRAVE", "a", "b", "c", "d", "e",
      "f", "g", "h", "i", "j", "k", "l", "m", "n", "o", "p", "q", "r", "s",
      "t", "u", "v", "w", "x", "y", "z", "{", "|", "}", "~">>

\* The code point of a character: the order Python compares strings by.
CodePoint(c) ==
    CASE c = "\t" -> 9
      [] c = "\n" -> 10
      [] c = "\f" -> 12
      [] c = "\r" -> 13
      [] c = "LDQUO" -> 8220
      [] c = "RDQUO" -> 8221
      [] c = "HELLIP" -> 8230
      [] OTHER -> 31 + (CHOOSE i \in 1..Len(Ascii) : Ascii[i] = c)

\* The characters \s matches and str.strip removes.
Whitespace == {" ", "\t", "\n", "\r", "\f"}

Drop(s, n) == SubSeq(s, n + 1, Len(s))

StartsWith(s, p) == Len(s) >= Len(p) /\ SubSeq(s, 1, Len(p)) = p

\* str.replace(old, new) for a non-empty old: every non-overlapping
\* occurrence, leftmost first.
RECURSIVE StrReplace(_, _, _)
StrReplace(s, old, new) ==
    IF Len(s) < Len(old) THEN s
    ELSE IF StartsWith(s, old)
         THEN new \o StrReplace(Drop(s, Len(old)), old, new)
         ELSE <<Head(s)>> \o StrReplace(Tail(s), old, new)

RECURSIVE LStrip(_)
LStrip(s) ==
    IF s /= <<>> /\ Head(s) \in Whitespace THEN LStrip(Tail(s)) ELSE s

RECURSIVE RStrip(_)
RStrip(s) ==
    IF s /= <<>> /\ s[Len(s)] \in Whitespace
    THEN RStrip(SubSeq(s, 1, Len(s) - 1))
    ELSE s

\* str.strip()
StrStrip(s) == RStrip(LStrip(s))

\* re.sub(r"\s+", " ", s)
RECURSIVE CollapseWhitespace(_)
CollapseWhitespace(s) ==
    IF s = <<>> THEN <<>>
    ELSE IF Head(s) \in Whitespace
         THEN <<" ">> \o CollapseWhitespace(LStrip(s))
         ELSE <<Head(s)>> \o CollapseWhitespace(Tail(s))

\* Python's < on strings
RECURSIVE StrLess(_, _)
StrLess(a, b) ==
    IF b = <<>> THEN FALSE
    ELSE IF a = <<>> THEN TRUE
    ELSE IF Head(a) = Head(b) THEN StrLess(Tail(a), Tail(b))
    ELSE CodePoint(Head(a)) < CodePoint(Head(b))

RECURSIVE Insert(_, _)
Insert(x, sortedSeq) ==
    IF sortedSeq = <<>> THEN <<x>>
    ELSE IF StrLess(x, Head(sortedSeq)) THEN <<x>> \o sortedSeq
    ELSE <<Head(sortedSeq)>> \o Insert(x, Tail(sortedSeq))

\* sorted(list of strings)
RECURSIVE Sorted(_)
Sorted(l) == IF l = <<>> THEN <<>> ELSE Insert(l[Len(l)], Sorted(SubSeq(l, 1, Len(l) - 1)))

\* sorted(l) raises TypeError when it has to compare None with anything
SortedRaises(l) == Len(l) >= 2 /\ \E i \in 1..Len(l) : l[i] = None

-----------------------------------------------------------------------------
(* baroque/utils.py *)

sanitize_text(text) ==
    IF text = None THEN <<>>
    ELSE
        LET t1 == StrReplace(text, <<"\n">>, <<" ">>)
            t2 == CollapseWhitespace(t1)
            t3 == StrReplace(StrReplace(StrReplace(t2, <<"LDQUO">>, <<"\"">>),
                                        <<"RDQUO">>, <<"\"">>), <<"\"">>, <<>>)
            t4 == StrReplace(t3, <<"'">>, <<>>)
            t5 == StrReplace(t4, <<"-">>, <<>>)
            t6 == StrReplace(t5, <<";">>, <<>>)
            t7 == StrReplace(t6, <<"HELLIP">>, <<>>)
            t8 == StrReplace(t7, <<"&">>, <<"a", "n", "d">>)
        IN  StrStrip(t8)

-----------------------------------------------------------------------------
(* The parsed document: an lxml element is a record of its qualified tag   *)
(* (written with the prefix the code's namespaces table gives its          *)
(* namespace), its attributes, its text, its children in document order    *)
(* and, for the root, its namespace map.                                   *)

Element(tag, attrib, text, children) ==
    [tag |-> tag, attrib |-> attrib, text |-> text, children |-> children]

\* the element a failed lookup returns (Python's None)
NoElement == Element("None", <<>>, None, <<>>)

\* dict.get(key): the value, or None
Get(dict, key) == IF key \in DOMAIN dict THEN dict[key] ELSE None

RECURSIVE Flatten(_)
Flatten(lists) ==
    IF lists = <<>> THEN <<>> ELSE Head(lists) \o Flatten(Tail(lists))

\* element.findall(path, namespaces): the descendants the path of child
\* steps reaches, in document order
RECURSIVE findall(_, _)
findall(element, path) ==
    IF path = <<>> THEN <<element>>
    ELSE LET hits == SelectSeq(element.children, LAMBDA c : c.tag = Head(path))
         IN  Flatten([i \in 1..Len(hits) |-> findall(hits[i], Tail(path))])

\* tree.xpath(path, namespaces) for an absolute path of child steps
xpath(root, path) ==
    IF root.tag = Head(path) THEN findall(root, Tail(path)) ELSE <<>>

\* the namespaces table of the module
namespaces ==
    [mets  |-> "http://www.loc.gov/METS/",
     dc    |-> "http://purl.org/dc/elements/1.1",
     aes   |-> "http://www.aes.org/audioObject",
     ph    |-> "http://www.aes.org/processhistory",
     mods  |-> "http://www.loc.gov/mods/v3",
     xlink |-> "http://www.w3.org/1999/xlink"]

\* the order a Python dict iterates its keys in: insertion order
namespaces_items == <<"mets", "dc", "aes", "ph", "mods", "xlink">>

-----------------------------------------------------------------------------
(* The sink of the base class BaroqueValidator: a finding is the triple    *)
(* (path, item id, message) and its level.  A message is its kind and what *)
(* it is about, in place of the formatted text.                            *)

error(path, id, kind, about) ==
    [level |-> "error", path |-> path, item |-> id, kind |-> kind, about |-> about]

warn(path, id, kind, about) ==
    [level |-> "warning", path |-> path, item |-> id, kind |-> kind, about |-> about]

\* the sink after the findings of one step are recorded
Record(findings) == sink \o findings

\* what a helper that can raise hands back: the findings it recorded and
\* the exception that left it ("none": it returned)
Outcome(msgs, exc) == [msgs |-> msgs, exc |-> exc]

\* statement sequencing: b runs only if a returned
Then(a, b) ==
    IF a.exc = "none" THEN Outcome(a.msgs \o b.msgs, b.exc) ELSE a

Done == Outcome(<<>>, "none")

Recorded(msgs) == Outcome(msgs, "none")

Truthy(s) == s /= None /\ s /= <<>>

-----------------------------------------------------------------------------
(* MetsValidator's helpers *)

check_tag_text(tag, argument, value) ==
    LET tag_text == sanitize_text(tag.text)
        v == sanitize_text(value)
    IN  IF argument = "Is" /\ tag_text /= v
        THEN <<error(path_to_mets, item_id, "text does not equal", tag.tag)>>
        ELSE <<>>

check_tag_attrib_exists(tag, attribute) ==
    IF attribute \notin DOMAIN tag.attrib
    THEN [exists |-> FALSE,
          msgs |-> <<error(path_to_mets, item_id, "attribute does not exists", attribute)>>]
    ELSE [exists |-> TRUE, msgs |-> <<>>]

\* the message is built by concatenating the attribute's value and the
\* expected value: when either is None the concatenation raises TypeError
\* before error is called
check_tag_attrib_equals(tag, attribute, value) ==
    IF Get(tag.attrib, attribute) /= value
    THEN IF Get(tag.attrib, attribute) = None \/ value = None
         THEN Outcome(<<>>, "TypeError")
         ELSE Recorded(<<error(path_to_mets, item_id, "attribute does not equal", attribute)>>)
    ELSE Done

check_tag_attrib(tag, attribute, argument, value) ==
    IF argument = "Exists"
    THEN Recorded(check_tag_attrib_exists(tag, attribute).msgs)
    ELSE IF argument = "Is"
    THEN LET e == check_tag_attrib_exists(tag, attribute)
         IN  IF e.exists
             THEN Then(Recorded(e.msgs), check_tag_attrib_equals(tag, attribute, value))
             ELSE Recorded(e.msgs)
    ELSE Outcome(<<>>, "SystemExit")

check_element_exists(element_path) ==
    LET elements == xpath(tree, element_path)
    IN  IF Len(elements) = 0
        THEN [element |-> NoElement, exists |-> FALSE,
              msgs |-> <<error(path_to_mets, item_id, "no element", element_path)>>]
        ELSE IF Len(elements) > 1
        THEN [element |-> NoElement, exists |-> FALSE,
              msgs |-> <<error(path_to_mets, item_id, "multiple elements", element_path)>>]
        ELSE [element |-> elements[1], exists |-> TRUE, msgs |-> <<>>]

\* expected defaults to False, which Python treats as the number 0
check_subelements_exist(element, subelement_path, expected) ==
    LET subelements == findall(element, subelement_path)
    IN  IF expected /= 0 /\ Len(subelements) /= expected
        THEN [subelements |-> subelements, exist |-> FALSE,
              msgs |-> <<error(path_to_mets, item_id, "subelements found, expected", subelement_path)>>]
        ELSE IF Len(subelements) = 0
        THEN [subelements |-> subelements, exist |-> FALSE,
              msgs |-> <<error(path_to_mets, item_id, "No subelements found", subelement_path)>>]
        ELSE [subelements |-> subelements, exist |-> TRUE, msgs |-> <<>>]

check_subelement_exists(element, subelement_path) ==
    LET found == findall(element, subelement_path)
    IN  IF found = <<>>
        THEN [subelement |-> NoElement, exists |-> FALSE,
              msgs |-> <<error(path_to_mets, item_id, "subelement not found", subelement_path)>>]
        ELSE [subelement |-> found[1], exists |-> TRUE, msgs |-> <<>>]

\* metadata_date[:-1]
DropLast(s) == SubSeq(s, 1, Len(s) - 1)

\* dateparser.parse: TypeError for anything but a string, else the date
\* the parser reads in it, or None
parse(date_string) == dateparser[date_string]

\* check_dates without the second try on the date less its last character
check_dates_no_retry(metadata_date, mets_date) ==
    LET md == sanitize_text(metadata_date)
    IN  IF mets_date = None
        THEN Outcome(<<>>, "TypeError")
        ELSE IF parse(md) /= parse(mets_date)
        THEN Recorded(<<error(path_to_mets, item_id, "date does not equal", mets_date)>>)
        ELSE Done

\* The test for "Undated"/"undated" ends in pass and changes nothing: both
\* dates are parsed and compared whatever it finds.
check_dates(metadata_date, mets_date) ==
    LET md == sanitize_text(metadata_date)
    IN  IF mets_date = None
        THEN Outcome(<<>>, "TypeError")
        ELSE IF parse(md) /= parse(mets_date) /\ parse(DropLast(md)) /= parse(mets_date)
        THEN Recorded(<<error(path_to_mets, item_id, "date does not equal", mets_date)>>)
        ELSE Done

-----------------------------------------------------------------------------
(* The string literals of mets_validation.py *)

\* "AUDIO RECORDING"
S_AUDIO_RECORDING ==
    <<"A", "U", "D", "I", "O", " ", "R", "E", "C", "O", "R", "D", "I", "N",
      "G">>

\* "OTHER"
S_OTHER ==
    <<"O", "T", "H", "E", "R">>

\* "PRESERVATION"
S_PRESERVATION ==
    <<"P", "R", "E", "S", "E", "R", "V", "A", "T", "I", "O", "N">>

\* "ORGANIZATION"
S_ORGANIZATION ==
    <<"O", "R", "G", "A", "N", "I", "Z", "A", "T", "I", "O", "N">>

\* "DISSEMINATOR"
S_DISSEMINATOR ==
    <<"D", "I", "S", "S", "E", "M", "I", "N", "A", "T", "O", "R">>

\* "The MediaPreserve"
S_The_MediaPreserve ==
    <<"T", "h", "e", " ", "M", "e", "d", "i", "a", "P", "r", "e", "s", "e",
      "r", "v", "e">>

\* "University of Michigan, Bentley Historical Library"
S_Bentley ==
    <<"U", "n", "i", "v", "e", "r", "s", "i", "t", "y", " ", "o", "f", " ",
      "M", "i", "c", "h", "i", "g", "a", "n", ",", " ", "B", "e", "n", "t",
      "l", "e", "y", " ", "H", "i", "s", "t", "o", "r", "i", "c", "a", "l",
      " ", "L", "i", "b", "r", "a", "r", "y">>

\* "DC"
S_DC ==
    <<"D", "C">>

\* "Dublin Core Metadata"
S_Dublin_Core_Metadata ==
    <<"D", "u", "b", "l", "i", "n", " ", "C", "o", "r", "e", " ", "M", "e",
      "t", "a", "d", "a", "t", "a">>

\* "audio-files"
S_audio_files ==
    <<"a", "u", "d", "i", "o", "-", "f", "i", "l", "e", "s">>

\* "media_images"
S_media_images ==
    <<"m", "e", "d", "i", "a", "_", "i", "m", "a", "g", "e", "s">>

\* "mdp."
S_mdp ==
    <<"m", "d", "p", ".">>

-----------------------------------------------------------------------------
(* The section validators.  Each reads self.tree, self.item_id,            *)
(* self.item_files, self.item_metadata and self.path_to_mets, and hands    *)
(* back the findings it recorded and the exception that left it.           *)

RECURSIVE Steps(_)
Steps(outcomes) ==
    IF outcomes = <<>> THEN Done ELSE Then(Head(outcomes), Steps(Tail(outcomes)))

\* mets_element_nsmap.get(ns) == namespace
NsmapHas(nsmap, ns) == ns \in DOMAIN nsmap /\ nsmap[ns] = namespaces[ns]

\* validate_root_element that leaves out the attribute checks once a
\* namespace is missing
validate_root_element_stops ==
    LET r == check_element_exists(<<"mets:mets">>)
        mets_element == r.element
        missing == SelectSeq(namespaces_items,
                             LAMBDA ns : ~NsmapHas(mets_element.nsmap, ns))
    IN  IF r.exists
        THEN Steps(<<
            Recorded([i \in 1..Len(missing) |->
                error(path_to_mets, item_id, "missing namespace", missing[i])]),
            IF missing = <<>>
            THEN check_tag_attrib(mets_element, "OBJID", "Is", item_id)
            ELSE Done,
            IF missing = <<>>
            THEN check_tag_attrib(mets_element, "TYPE", "Is", S_AUDIO_RECORDING)
            ELSE Done>>)
        ELSE Recorded(r.msgs)

validate_root_element ==
    LET r == check_element_exists(<<"mets:mets">>)
        mets_element == r.element
        missing == SelectSeq(namespaces_items,
                             LAMBDA ns : ~NsmapHas(mets_element.nsmap, ns))
    IN  IF r.exists
        THEN Steps(<<
            Recorded([i \in 1..Len(missing) |->
                error(path_to_mets, item_id, "missing namespace", missing[i])]),
            check_tag_attrib(mets_element, "OBJID", "Is", item_id),
            check_tag_attrib(mets_element, "TYPE", "Is", S_AUDIO_RECORDING)>>)
        ELSE Recorded(r.msgs)

\* the checks of one mets:agent: ROLE, TYPE (where one is given) and name
AgentChecks(agent, role, type, name) ==
    LET n == check_subelement_exists(agent, <<"mets:name">>)
    IN  Steps(<<
            check_tag_attrib(agent, "ROLE", "Is", role),
            IF type = None THEN Done
            ELSE check_tag_attrib(agent, "TYPE", "Is", type),
            Recorded(n.msgs),
            IF n.exists
            THEN Recorded(check_tag_text(n.subelement, "Is", name))
            ELSE Done>>)

validate_mets_header ==
    LET r == check_element_exists(<<"mets:mets", "mets:metsHdr">>)
        mets_header == r.element
        a == check_subelements_exist(mets_header, <<"mets:agent">>, 3)
        agents == a.subelements
    IN  IF r.exists
        THEN Steps(<<
            check_tag_attrib(mets_header, "CREATEDATE", "Exists", None),
            Recorded(a.msgs),
            IF a.exist
            THEN Steps(<<
                AgentChecks(agents[1], S_OTHER, None, S_The_MediaPreserve),
                AgentChecks(agents[2], S_PRESERVATION, S_ORGANIZATION, S_Bentley),
                AgentChecks(agents[3], S_DISSEMINATOR, S_ORGANIZATION, S_Bentley)>>)
            ELSE Done>>)
        ELSE Recorded(r.msgs)

\* the checks inside xmlData of dmdSec, for an item with metadata
XmlDataChecks(xmlData, metadata) ==
    LET dc_title == check_subelement_exists(xmlData, <<"dc:title">>)
        dc_relation == check_subelement_exists(xmlData, <<"dc:relation">>)
        dc_identifier == check_subelement_exists(xmlData, <<"dc:identifier">>)
        dc_date == check_subelement_exists(xmlData, <<"dc:date">>)
        dc_format == check_subelement_exists(xmlData, <<"dc:format">>)
        dc_format_extent == check_subelements_exist(xmlData, <<"dc:format.extent">>, 0)
    IN  Steps(<<
            IF Truthy(Get(metadata, "item_title"))
            THEN Recorded(dc_title.msgs \o
                    (IF dc_title.exists
                     THEN check_tag_text(dc_title.subelement, "Is", metadata["item_title"])
                     ELSE <<>>))
            ELSE Recorded(<<warn(path_to_mets, item_id, "item title not found", "item_title")>>),
            IF Truthy(Get(metadata, "collection_title"))
            THEN Recorded(dc_relation.msgs \o
                    (IF dc_relation.exists
                     THEN check_tag_text(dc_relation.subelement, "Is", metadata["collection_title"])
                     ELSE <<>>))
            ELSE Recorded(<<warn(path_to_mets, item_id, "collection title not found", "collection_title")>>),
            Recorded(dc_identifier.msgs \o
                    (IF dc_identifier.exists
                     THEN check_tag_text(dc_identifier.subelement, "Is", item_id)
                     ELSE <<>>)),
            IF Truthy(Get(metadata, "item_date"))
            THEN Then(Recorded(dc_date.msgs),
                      IF dc_date.exists
                      THEN check_dates(metadata["item_date"], dc_date.subelement.text)
                      ELSE Done)
            ELSE Recorded(<<warn(path_to_mets, item_id, "item date not found", "item_date")>>),
            Recorded(dc_format.msgs),
            Recorded(dc_format_extent.msgs)>>)

\* if self.item_metadata: neither None nor an empty dict
HasMetadata(metadata) == metadata /= <<>> /\ DOMAIN metadata[1] /= {}

\* validate_descriptive_metadata that looks at the item's metadata before
\* it looks for dmdSec
validate_descriptive_metadata_warns_first ==
    LET r == check_element_exists(<<"mets:mets", "mets:dmdSec">>)
        descriptive_metadata == r.element
        m == check_subelement_exists(descriptive_metadata, <<"mets:mdWrap">>)
        mdWrap == m.subelement
        x == check_subelement_exists(mdWrap, <<"mets:xmlData">>)
    IN  IF ~HasMetadata(item_metadata)
        THEN Recorded(<<warn(path_to_mets, item_id, "item has no associated metadata", "item_metadata")>>)
        ELSE IF r.exists
        THEN Then(Recorded(m.msgs),
                IF m.exists
                THEN Steps(<<
                    check_tag_attrib(mdWrap, "MDTYPE", "Is", S_DC),
                    check_tag_attrib(mdWrap, "LABEL", "Is", S_Dublin_Core_Metadata),
                    Recorded(x.msgs),
                    IF x.exists
                    THEN XmlDataChecks(x.subelement, item_metadata[1])
                    ELSE Done>>)
                ELSE Done)
        ELSE Recorded(r.msgs)

validate_descriptive_metadata ==
    LET r == check_element_exists(<<"mets:mets", "mets:dmdSec">>)
        descriptive_metadata == r.element
        m == check_subelement_exists(descriptive_metadata, <<"mets:mdWrap">>)
        mdWrap == m.subelement
        x == check_subelement_exists(mdWrap, <<"mets:xmlData">>)
    IN  IF r.exists
        THEN IF HasMetadata(item_metadata)
             THEN Then(Recorded(m.msgs),
                    IF m.exists
                    THEN Steps(<<
                        check_tag_attrib(mdWrap, "MDTYPE", "Is", S_DC),
                        check_tag_attrib(mdWrap, "LABEL", "Is", S_Dublin_Core_Metadata),
                        Recorded(x.msgs),
                        IF x.exists
                        THEN XmlDataChecks(x.subelement, item_metadata[1])
                        ELSE Done>>)
                    ELSE Done)
             ELSE Recorded(<<warn(path_to_mets, item_id, "item has no associated metadata", "item_metadata")>>)
        ELSE Recorded(r.msgs)


\* one pass of the techMD loop: the findings it records and what it
\* appends to found_files
TechMDStep(techMD) ==
    LET p == check_subelement_exists(techMD,
                <<"mets:mdWrap", "mets:xmlData", "aes:audioObject", "aes:primaryIdentifier">>)
    IN  IF findall(techMD, <<"mets:mdRef">>) = <<>>
        THEN [msgs |-> p.msgs,
              found |-> IF p.exists THEN <<p.subelement.text>> ELSE <<>>]
        ELSE [msgs |-> <<>>, found |-> <<>>]

validate_administrative_metadata ==
    LET r == check_element_exists(<<"mets:mets", "mets:amdSec">>)
        administrative_metadata == r.element
        audio_files == item_files.wav \o item_files.mp3
        expected_files == audio_files \o item_files.txt
        t == check_subelements_exist(administrative_metadata, <<"mets:techMD">>,
                                     Len(expected_files))
        techMDs == t.subelements
        steps == [i \in 1..Len(techMDs) |-> TechMDStep(techMDs[i])]
        found_files == Flatten([i \in 1..Len(steps) |-> steps[i].found])
        sourceMD == check_subelement_exists(administrative_metadata, <<"mets:sourceMD">>)
        digiprovMD == check_subelement_exists(administrative_metadata, <<"mets:digiprovMD">>)
    IN  IF r.exists
        THEN Steps(<<
            Recorded(t.msgs),
            IF t.exist
            THEN Steps(<<
                Recorded(Flatten([i \in 1..Len(steps) |-> steps[i].msgs])),
                IF SortedRaises(found_files)
                THEN Outcome(<<>>, "TypeError")
                ELSE IF Sorted(found_files) /= Sorted(audio_files)
                THEN Recorded(<<error(path_to_mets, item_id,
                        "audio filenames found in amdSec/techMDs do not match", found_files)>>)
                ELSE Done>>)
            ELSE Done,
            Recorded(sourceMD.msgs),
            Recorded(digiprovMD.msgs)>>)
        ELSE Recorded(r.msgs)

\* one pass of the fileGrp loop
FileGroupStep(file_group) ==
    LET file_group_id == Get(file_group.attrib, "ID")
    IN  [found |-> <<file_group_id>>,
         msgs |-> IF file_group_id = S_audio_files
                  THEN check_subelements_exist(file_group, <<"mets:fileGrp">>, 3).msgs
                  ELSE <<>>]

validate_file_section ==
    LET r == check_element_exists(<<"mets:mets", "mets:fileSec">>)
        file_section == r.element
        g == check_subelements_exist(file_section, <<"mets:fileGrp">>, 2)
        file_groups == g.subelements
        expected_ids == <<S_audio_files, S_media_images>>
        steps == [i \in 1..Len(file_groups) |-> FileGroupStep(file_groups[i])]
        found_ids == Flatten([i \in 1..Len(steps) |-> steps[i].found])
    IN  IF r.exists
        THEN Then(Recorded(g.msgs),
                IF g.exist
                THEN Steps(<<
                    Recorded(Flatten([i \in 1..Len(steps) |-> steps[i].msgs])),
                    IF SortedRaises(found_ids)
                    THEN Outcome(<<>>, "TypeError")
                    ELSE IF Sorted(found_ids) /= expected_ids
                    THEN Recorded(<<error(path_to_mets, item_id,
                            "fileGrp IDs do not match expected", found_ids)>>)
                    ELSE Done>>)
                ELSE Done)
        ELSE Recorded(r.msgs)

\* fptr.attrib.get("FILEID").replace("mdp.", "").strip()
FileId(fptr) == StrStrip(StrReplace(Get(fptr.attrib, "FILEID"), S_mdp, <<>>))

\* every fptr of the nested divs, in document order
FilePointerElements(sub_divs) ==
    Flatten([i \in 1..Len(sub_divs) |-> findall(sub_divs[i], <<"mets:fptr">>)])

validate_structural_map_section ==
    LET r == check_element_exists(<<"mets:mets", "mets:structMap">>)
        structural_map_section == r.element
        d == check_subelement_exists(structural_map_section, <<"mets:div">>)
        div_one == d.subelement
        s == check_subelements_exist(div_one, <<"mets:div">>, 0)
        sub_divs == s.subelements
        expected_files == item_files.wav \o item_files.mp3
        fptrs == FilePointerElements(sub_divs)
        file_pointers == [i \in 1..Len(fptrs) |-> FileId(fptrs[i])]
    IN  IF r.exists
        THEN Then(Recorded(d.msgs),
                IF d.exists
                THEN Then(Recorded(s.msgs),
                        IF s.exist
                        THEN IF \E i \in 1..Len(fptrs) : "FILEID" \notin DOMAIN fptrs[i].attrib
                             THEN Outcome(<<>>, "AttributeError")
                             ELSE IF Sorted(file_pointers) /= Sorted(expected_files)
                             THEN Recorded(<<error(path_to_mets, item_id,
                                     "structMap fileptr IDs do not match expected", file_pointers)>>)
                             ELSE Done
                        ELSE Done)
                ELSE Done)
        ELSE Recorded(r.msgs)

-----------------------------------------------------------------------------
(* The inputs: the strings the items, the spreadsheet and the documents    *)
(* are made of.                                                            *)

\* "January 1, 2020"
D_Jan1 ==
    <<"J", "a", "n", "u", "a", "r", "y", " ", "1", ",", " ", "2", "0", "2",
      "0">>

\* "January 1, 202"
D_Jan1_cut ==
    <<"J", "a", "n", "u", "a", "r", "y", " ", "1", ",", " ", "2", "0", "2">>

\* "January 1, 2020?"
D_Jan1_x ==
    <<"J", "a", "n", "u", "a", "r", "y", " ", "1", ",", " ", "2", "0", "2",
      "0", "?">>

\* "2020-01-01"
D_iso1 ==
    <<"2", "0", "2", "0", "-", "0", "1", "-", "0", "1">>

\* "2020-01-02"
D_iso2 ==
    <<"2", "0", "2", "0", "-", "0", "1", "-", "0", "2">>

\* "Undated"
D_Undated ==
    <<"U", "n", "d", "a", "t", "e", "d">>

\* "Undate"
D_Undate ==
    <<"U", "n", "d", "a", "t", "e">>

\* "undated"
D_undated ==
    <<"u", "n", "d", "a", "t", "e", "d">>

\* "undate"
D_undate ==
    <<"u", "n", "d", "a", "t", "e">>

\* "-"
D_dash ==
    <<"-">>

\* "mets.xml"
N_mets_xml ==
    <<"m", "e", "t", "s", ".", "x", "m", "l">>

\* "t1.wav"
N_t1_wav ==
    <<"t", "1", ".", "w", "a", "v">>

\* "t2.wav"
N_t2_wav ==
    <<"t", "2", ".", "w", "a", "v">>

\* "t1.mp3"
N_t1_mp3 ==
    <<"t", "1", ".", "m", "p", "3">>

\* "n.txt"
N_n_txt ==
    <<"n", ".", "t", "x", "t">>

\* "amdp.wav"
N_amdp_wav ==
    <<"a", "m", "d", "p", ".", "w", "a", "v">>

\* " mdp.t1.wav\n"
N_t1_wav_padded ==
    <<" ", "m", "d", "p", ".", "t", "1", ".", "w", "a", "v", "\n">>

\* "Side LDQUO A RDQUO & B"
T_title_meta ==
    <<"S", "i", "d", "e", " ", "LDQUO", "A", "RDQUO", " ", "&", " ", "B">>

\* "Side A and\n B"
T_title_doc ==
    <<"S", "i", "d", "e", " ", "A", " ", "a", "n", "d", "\n", " ", "B">>

\* "Side C"
T_title_other ==
    <<"S", "i", "d", "e", " ", "C">>

\* "Papers; 1"
T_collection ==
    <<"P", "a", "p", "e", "r", "s", ";", " ", "1">>

\* "Papers 1"
T_collection_doc ==
    <<"P", "a", "p", "e", "r", "s", " ", "1">>

\* "  The  MediaPreserve "
T_agent_padded ==
    <<" ", " ", "T", "h", "e", " ", " ", "M", "e", "d", "i", "a", "P", "r",
      "e", "s", "e", "r", "v", "e", " ">>

\* "2019-08-05"
T_created ==
    <<"2", "0", "1", "9", "-", "0", "8", "-", "0", "5">>

\* "x"
T_other ==
    <<"x">>

-----------------------------------------------------------------------------
(* The inputs: items and their METS documents.  A case names, section by   *)
(* section, how an item and its document depart from a package that        *)
(* validates without findings.                                             *)

Opt(key, value) == IF value = None THEN <<>> ELSE (key :> value)

Leaf(tag, text) == Element(tag, <<>>, text, <<>>)

Reverse(l) == [i \in 1..Len(l) |-> l[Len(l) + 1 - i]]

Digit(i) == Ascii[16 + i + 1]

\* the id of the i-th item of the batch: "A-1", "A-2", ...
IdOf(i) == <<"A", "-", Digit(i)>>

PathOf(i) == <<"batch", i>>

\* os.path.join(path_to_item, mets)
PathJoin(path, name) == <<path, name>>

FilesOf(c) ==
    [xml |-> IF c.xml THEN <<N_mets_xml>> ELSE <<>>,
     wav |-> CASE c.files = "std" -> <<N_t1_wav, N_t2_wav>>
               [] c.files = "mdpname" -> <<N_amdp_wav>>
               [] OTHER -> <<>>,
     mp3 |-> IF c.files = "std" THEN <<N_t1_mp3>> ELSE <<>>,
     txt |-> IF c.files = "std" THEN <<N_n_txt>> ELSE <<>>]

AudioOf(c) == FilesOf(c).wav \o FilesOf(c).mp3

Item(i, c) == [id |-> IdOf(i), path |-> PathOf(i), files |-> FilesOf(c)]

\* the item's row of the metadata export, where it has one
MetadataRow(c) ==
    CASE c.meta = "full" ->
            [item_title |-> T_title_meta, collection_title |-> T_collection,
             item_date |-> D_Jan1]
      [] c.meta = "noTitle" ->
            [collection_title |-> <<>>, item_date |-> D_Jan1]
      [] c.meta = "undated" ->
            [item_title |-> T_title_meta, collection_title |-> T_collection,
             item_date |-> D_Undated]
      [] c.meta = "artifact" ->
            [item_title |-> T_title_meta, collection_title |-> T_collection,
             item_date |-> D_Jan1_x]
      [] c.meta = "noDate" ->
            [item_title |-> T_title_meta, collection_title |-> T_collection]
      [] OTHER -> <<>>

NsmapOf(c) ==
    CASE c.ns = "ok" -> namespaces
      [] c.ns = "noMods" -> [p \in DOMAIN namespaces \ {"mods"} |-> namespaces[p]]
      [] c.ns = "dcSlash" ->
            [namespaces EXCEPT !.dc = "http://purl.org/dc/elements/1.1/"]
      [] c.ns = "noModsOtherXlink" ->
            [p \in DOMAIN namespaces \ {"mods"} |->
                IF p = "xlink" THEN "http://www.w3.org/TR/xlink" ELSE namespaces[p]]
      [] c.ns = "extra" -> namespaces @@ ("fits" :> "http://hul.harvard.edu/ois/xml/ns/fits/fits_output")
      [] OTHER -> <<>>

Agent(role, type, name) ==
    Element("mets:agent", Opt("ROLE", role) @@ Opt("TYPE", type), None,
            IF name = None THEN <<>> ELSE <<Leaf("mets:name", name)>>)

HdrOf(c) ==
    LET a1 == Agent(S_OTHER, None, S_The_MediaPreserve)
        a2 == Agent(S_PRESERVATION, S_ORGANIZATION, S_Bentley)
        a3 == Agent(S_DISSEMINATOR, S_ORGANIZATION, S_Bentley)
        agents ==
            CASE c.hdr = "twoAgents" -> <<a1, a2>>
              [] c.hdr = "swapped" -> <<a1, a3, a2>>
              [] c.hdr = "noName" -> <<Agent(S_OTHER, None, None), a2, a3>>
              [] c.hdr = "padded" -> <<Agent(S_OTHER, None, T_agent_padded), a2, a3>>
              [] c.hdr = "noRole" -> <<Agent(None, None, S_The_MediaPreserve), a2, a3>>
              [] OTHER -> <<a1, a2, a3>>
        hdr == Element("mets:metsHdr",
                       IF c.hdr = "noCreateDate" THEN <<>> ELSE ("CREATEDATE" :> T_created),
                       None, agents)
    IN  CASE c.hdr = "absent" -> <<>>
          [] c.hdr = "dup" -> <<hdr, hdr>>
          [] OTHER -> <<hdr>>

DmdOf(c, id) ==
    LET date == CASE c.dmd = "emptyDate" -> None
                  [] c.dmd = "otherDate" -> D_iso2
                  [] c.dmd = "undated" -> D_undated
                  [] OTHER -> D_iso1
        title == IF c.dmd = "badTitle" THEN <<Leaf("dc:title", T_title_other)>>
                 ELSE IF c.dmd = "noTitle" THEN <<>>
                 ELSE <<Leaf("dc:title", T_title_doc)>>
        fields == title \o
                  <<Leaf("dc:relation", T_collection_doc),
                    Leaf("dc:identifier", IF c.dmd = "wrongId" THEN T_other ELSE id),
                    Leaf("dc:date", date),
                    Leaf("dc:format", T_other)>> \o
                  (IF c.dmd = "noExtent" THEN <<>>
                   ELSE <<Leaf("dc:format.extent", T_other)>>)
        xmlData == Element("mets:xmlData", <<>>, None, fields)
        mdWrap == Element("mets:mdWrap",
                          ("MDTYPE" :> S_DC) @@
                          ("LABEL" :> IF c.dmd = "badLabel" THEN T_other
                                      ELSE S_Dublin_Core_Metadata),
                          None,
                          IF c.dmd = "noXmlData" THEN <<>> ELSE <<xmlData>>)
        dmd == Element("mets:dmdSec", <<>>, None,
                       IF c.dmd = "empty" THEN <<>> ELSE <<mdWrap>>)
    IN  CASE c.dmd = "absent" -> <<>>
          [] c.dmd = "dup" -> <<dmd, dmd>>
          [] OTHER -> <<dmd>>

\* a techMD that describes an audio file inline
TechAudio(name) ==
    Element("mets:techMD", <<>>, None,
        <<Element("mets:mdWrap", <<>>, None,
            <<Element("mets:xmlData", <<>>, None,
                <<Element("aes:audioObject", <<>>, None,
                    <<Leaf("aes:primaryIdentifier", name)>>)>>)>>)>>)

\* a techMD that describes a file by reference
TechRef == Element("mets:techMD", <<>>, None, <<Leaf("mets:mdRef", None)>>)

AmdOf(c) ==
    LET audio == AudioOf(c)
        txt == FilesOf(c).txt
        first == CASE c.amd = "emptyPrimary" -> <<TechAudio(None)>>
                   [] c.amd = "noPrimary" -> <<Element("mets:techMD", <<>>, None, <<>>)>>
                   [] c.amd = "wrongName" -> <<TechAudio(T_other)>>
                   [] OTHER -> <<>>
        good == [i \in 1..Len(audio) |-> TechAudio(audio[i])] \o
                [i \in 1..Len(txt) |-> TechRef]
        techMDs == CASE c.amd = "noTech" -> <<>>
                     [] c.amd = "oneLess" -> SubSeq(good, 1, Len(good) - 1)
                     [] c.amd = "oneMore" -> good \o <<TechRef>>
                     [] c.amd = "twoMore" -> good \o <<TechRef, TechRef>>
                     [] c.amd = "reordered" -> Reverse(good)
                     [] first /= <<>> -> first \o Tail(good)
                     [] OTHER -> good
        amd == Element("mets:amdSec", <<>>, None,
                       techMDs \o
                       (IF c.amd = "noSource" THEN <<>> ELSE <<Leaf("mets:sourceMD", None)>>) \o
                       <<Leaf("mets:digiprovMD", None)>>)
    IN  CASE c.amd = "absent" -> <<>>
          [] c.amd = "dup" -> <<amd, amd>>
          [] OTHER -> <<amd>>

FileGrp(id, nested) ==
    Element("mets:fileGrp", Opt("ID", id), None,
            [i \in 1..nested |-> Element("mets:fileGrp", <<>>, None, <<>>)])

FsecOf(c) ==
    LET audio == FileGrp(S_audio_files, IF c.fsec = "twoNested" THEN 2 ELSE 3)
        images == FileGrp(S_media_images, 0)
        groups == CASE c.fsec = "oneGrp" -> <<audio>>
                    [] c.fsec = "noID" -> <<audio, FileGrp(None, 0)>>
                    [] c.fsec = "swapped" -> <<images, audio>>
                    [] c.fsec = "otherID" -> <<audio, FileGrp(T_other, 0)>>
                    [] OTHER -> <<audio, images>>
        fsec == Element("mets:fileSec", <<>>, None, groups)
    IN  CASE c.fsec = "absent" -> <<>>
          [] c.fsec = "dup" -> <<fsec, fsec>>
          [] OTHER -> <<fsec>>

Fptr(file_id) == Element("mets:fptr", Opt("FILEID", file_id), None, <<>>)

Div(children) == Element("mets:div", <<>>, None, children)

SmapOf(c) ==
    LET audio == AudioOf(c)
        good == [i \in 1..Len(audio) |-> Fptr(S_mdp \o audio[i])]
        fptrs == CASE c.smap = "reordered" -> Reverse(good)
                   [] c.smap = "missingOne" -> SubSeq(good, 1, Len(good) - 1)
                   [] c.smap = "dupOne" -> <<Head(good)>> \o good
                   [] c.smap = "noFILEID" -> <<Fptr(None)>> \o Tail(good)
                   [] c.smap = "padded" -> <<Fptr(N_t1_wav_padded)>> \o Tail(good)
                   [] c.smap = "noPrefix" -> [i \in 1..Len(audio) |-> Fptr(audio[i])]
                   [] OTHER -> good
        nested == IF c.smap = "noNestedDiv" THEN <<>>
                  ELSE IF c.smap = "oneNestedDiv" THEN <<Div(fptrs)>>
                  ELSE [i \in 1..Len(fptrs) |-> Div(<<fptrs[i]>>)]
        divs == CASE c.smap = "noDiv" -> <<>>
                  [] c.smap = "twoDivs" -> <<Div(nested), Div(<<>>)>>
                  [] OTHER -> <<Div(nested)>>
        smap == Element("mets:structMap", <<>>, None, divs)
    IN  CASE c.smap = "absent" -> <<>>
          [] c.smap = "dup" -> <<smap, smap>>
          [] OTHER -> <<smap>>

\* the root element etree.parse gives for case c of the item with this id
DocOf(c, id) ==
    [tag |-> IF c.root = "ok" THEN "mets:mets" ELSE "other:mets",
     attrib |->
        Opt("OBJID", CASE c.objid = "missing" -> None
                       [] c.objid = "other" -> T_other
                       [] OTHER -> id) @@
        Opt("TYPE", CASE c.type = "missing" -> None
                      [] c.type = "other" -> T_other
                      [] OTHER -> S_AUDIO_RECORDING),
     text |-> None,
     nsmap |-> NsmapOf(c),
     children |-> HdrOf(c) \o DmdOf(c, id) \o AmdOf(c) \o FsecOf(c) \o SmapOf(c)]

-----------------------------------------------------------------------------
(* The cases *)

Base ==
    [xml |-> TRUE, wellformed |-> TRUE, root |-> "ok", ns |-> "ok",
     objid |-> "ok", type |-> "ok", hdr |-> "ok", meta |-> "full",
     dmd |-> "ok", files |-> "std", amd |-> "ok", fsec |-> "ok", smap |-> "ok"]

RootCases ==
    {[Base EXCEPT !.xml = FALSE], [Base EXCEPT !.wellformed = FALSE],
     [Base EXCEPT !.root = "other"],
     [Base EXCEPT !.ns = "noMods", !.objid = "other"],
     [Base EXCEPT !.ns = "none", !.type = "missing"]}
    \cup {[Base EXCEPT !.ns = v] :
            v \in {"noMods", "dcSlash", "noModsOtherXlink", "extra", "none"}}
    \cup {[Base EXCEPT !.objid = v] : v \in {"missing", "other"}}
    \cup {[Base EXCEPT !.type = v] : v \in {"missing", "other"}}

HdrCases ==
    {[Base EXCEPT !.hdr = v] :
        v \in {"absent", "dup", "noCreateDate", "twoAgents", "swapped",
               "noName", "padded", "noRole"}}

DmdCases ==
    {[Base EXCEPT !.dmd = v] :
        v \in {"absent", "dup", "empty", "noXmlData", "badLabel", "badTitle",
               "noTitle", "emptyDate", "otherDate", "undated", "noExtent",
               "wrongId"}}
    \cup {[Base EXCEPT !.meta = v] :
            v \in {"none", "emptyRow", "noTitle", "undated", "artifact", "noDate"}}
    \cup {[Base EXCEPT !.meta = "none", !.dmd = v] :
            v \in {"absent", "dup", "empty", "emptyDate", "badTitle"}}
    \cup {[Base EXCEPT !.meta = "undated", !.dmd = "undated"],
          [Base EXCEPT !.meta = "artifact", !.dmd = "otherDate"],
          [Base EXCEPT !.meta = "noDate", !.dmd = "emptyDate"]}

AmdCases ==
    {[Base EXCEPT !.amd = v] :
        v \in {"absent", "dup", "noTech", "oneLess", "oneMore", "reordered",
               "emptyPrimary", "noPrimary", "wrongName", "noSource"}}
    \cup {[Base EXCEPT !.files = "none", !.amd = v] :
            v \in {"ok", "oneMore", "twoMore"}}
    \cup {[Base EXCEPT !.files = "mdpname", !.amd = "emptyPrimary"]}

FsecCases ==
    {[Base EXCEPT !.fsec = v] :
        v \in {"absent", "dup", "oneGrp", "noID", "swapped", "twoNested", "otherID"}}

SmapCases ==
    {[Base EXCEPT !.smap = v] :
        v \in {"absent", "dup", "noDiv", "twoDivs", "noNestedDiv", "oneNestedDiv",
               "reordered", "missingOne", "dupOne", "noFILEID", "padded", "noPrefix"}}
    \cup {[Base EXCEPT !.files = "mdpname", !.smap = v] :
            v \in {"ok", "noPrefix", "noFILEID"}}

Cases == {Base} \cup RootCases \cup HdrCases \cup DmdCases \cup AmdCases
         \cup FsecCases \cup SmapCases

\* what the other items of a batch are drawn from
Neighbours ==
    {Base, [Base EXCEPT !.xml = FALSE], [Base EXCEPT !.wellformed = FALSE],
     [Base EXCEPT !.smap = "noFILEID"]}

\* the longest batch
MaxItems == 2

\* the batches of n items: one item drawn from all the cases, at any
\* position, among neighbours
Batches(n) ==
    {[i \in 1..n |-> IF i = k THEN c ELSE nb[i]] :
        k \in 1..n, c \in Cases, nb \in [1..n -> Neighbours]}

-----------------------------------------------------------------------------
(* dateparser.parse, an external library: a date is <<year, month, day>>,  *)
(* None is <<>>.  What the parser makes of a string cut short, or of one   *)
(* with a stray last character, is left open.                              *)

NoDate == <<>>

KnownDates ==
    (D_Jan1 :> <<2020, 1, 1>>) @@ (D_iso1 :> <<2020, 1, 1>>) @@
    (D_iso2 :> <<2020, 1, 2>>) @@ (D_Undated :> NoDate) @@
    (D_undated :> NoDate) @@ (D_Undate :> NoDate) @@ (D_undate :> NoDate) @@
    (<<>> :> NoDate)

OpenDates ==
    (D_Jan1_cut :> {NoDate, <<202, 1, 1>>}) @@
    (D_Jan1_x :> {NoDate, <<2020, 1, 1>>})

ParserTables ==
    {KnownDates @@ open :
        open \in {f \in [DOMAIN OpenDates -> {NoDate, <<202, 1, 1>>, <<2020, 1, 1>>}] :
                    \A d \in DOMAIN OpenDates : f[d] \in OpenDates[d]}}

\* the parser the batch runs with: no outcome of a batch case depends on
\* the open readings
BatchParser == KnownDates @@ [d \in DOMAIN OpenDates |-> NoDate]

-----------------------------------------------------------------------------
(* validate_mets over a project *)

NotSet == None

ProjectOf(cs) ==
    [items |-> [i \in 1..Len(cs) |-> Item(i, cs[i])],
     metadata |-> [item_metadata |->
        [id \in {IdOf(i) : i \in {j \in 1..Len(cs) : cs[j].meta /= "none"}} |->
            MetadataRow(cs[CHOOSE i \in 1..Len(cs) : IdOf(i) = id])]]]

\* the METS files on disk: well-formed with a root element, or not
DiskOf(cs) ==
    [p \in {PathJoin(PathOf(i), N_mets_xml) : i \in {j \in 1..Len(cs) : cs[j].xml}} |->
        LET i == CHOOSE j \in 1..Len(cs) : PathJoin(PathOf(j), N_mets_xml) = p
        IN  IF cs[i].wellformed
            THEN [wellformed |-> TRUE, root |-> DocOf(cs[i], IdOf(i))]
            ELSE [wellformed |-> FALSE]]

Init ==
    /\ \E n \in 1..MaxItems : \E cs \in Batches(n) :
            /\ project = ProjectOf(cs)
            /\ disk = DiskOf(cs)
    /\ dateparser = BatchParser
    /\ idx = 1
    /\ pc = "loop"
    /\ item_id = NotSet
    /\ item_files = NotSet
    /\ item_metadata = NotSet
    /\ path_to_mets = NotSet
    /\ tree = NoElement
    /\ sink = <<>>
    /\ ran = <<>>
    /\ raised = "none"
    /\ arg = <<>>
    /\ ret = <<>>

\* for item in self.project.items: the loop is over
LoopEnd ==
    /\ pc = "loop"
    /\ idx > Len(project.items)
    /\ pc' = "done"
    /\ UNCHANGED <<project, disk, dateparser, idx, item_id, item_files,
                   item_metadata, path_to_mets, tree, sink, ran, raised, arg, ret>>

\* if not item['files']['xml']: continue
SkipItem ==
    /\ pc = "loop"
    /\ idx <= Len(project.items)
    /\ project.items[idx].files.xml = <<>>
    /\ idx' = idx + 1
    /\ UNCHANGED <<project, disk, dateparser, pc, item_id, item_files,
                   item_metadata, path_to_mets, tree, sink, ran, raised, arg, ret>>

\* parse_item_mets that returns True after a failed parse as well
parse_item_mets_returns_true(item) ==
    LET path_to_item == item.path
        mets == item.files.xml[1]
        id == item.id
        path == PathJoin(path_to_item, mets)
    IN  /\ item_id' = id
        /\ item_files' = item.files
        /\ item_metadata' = IF id \in DOMAIN project.metadata.item_metadata
                            THEN <<project.metadata.item_metadata[id]>>
                            ELSE <<>>
        /\ path_to_mets' = path
        /\ IF disk[path].wellformed
           THEN /\ tree' = disk[path].root
                /\ sink' = sink
           ELSE /\ tree' = tree
                /\ sink' = Record(<<error(path, id, "mets xml is not valid", path)>>)
        /\ pc' = "root"
        /\ idx' = idx

\* parse_item_mets that reports a failed parse before it takes the item's
\* id and path
parse_item_mets_reports_early(item) ==
    LET path_to_item == item.path
        mets == item.files.xml[1]
        id == item.id
        path == PathJoin(path_to_item, mets)
    IN  /\ item_id' = id
        /\ item_files' = item.files
        /\ item_metadata' = IF id \in DOMAIN project.metadata.item_metadata
                            THEN <<project.metadata.item_metadata[id]>>
                            ELSE <<>>
        /\ path_to_mets' = path
        /\ IF disk[path].wellformed
           THEN /\ tree' = disk[path].root
                /\ sink' = sink
                /\ pc' = "root"
                /\ idx' = idx
           ELSE /\ tree' = tree
                /\ sink' = Record(<<error(path_to_mets, item_id, "mets xml is not valid", path)>>)
                /\ pc' = "loop"
                /\ idx' = idx + 1

parse_item_mets(item) ==
    LET path_to_item == item.path
        mets == item.files.xml[1]
        id == item.id
        path == PathJoin(path_to_item, mets)
    IN  /\ item_id' = id
        /\ item_files' = item.files
        /\ item_metadata' = IF id \in DOMAIN project.metadata.item_metadata
                            THEN <<project.metadata.item_metadata[id]>>
                            ELSE <<>>
        /\ path_to_mets' = path
        /\ IF disk[path].wellformed
           THEN /\ tree' = disk[path].root
                /\ sink' = sink
                /\ pc' = "root"
                /\ idx' = idx
           ELSE /\ tree' = tree
                /\ sink' = Record(<<error(path, id, "mets xml is not valid", path)>>)
                /\ pc' = "loop"
                /\ idx' = idx + 1

ParseItem ==
    /\ pc = "loop"
    /\ idx <= Len(project.items)
    /\ project.items[idx].files.xml /= <<>>
    /\ parse_item_mets(project.items[idx])
    /\ UNCHANGED <<project, disk, dateparser, ran, raised, arg, ret>>

\* one section validator called from validate_mets: what it recorded is in
\* the sink; an exception that leaves it leaves validate_mets
RunSection(section, outcome, next) ==
    /\ pc = section
    /\ sink' = Record(outcome.msgs)
    /\ ran' = Append(ran, [item |-> idx, section |-> section,
                            first |-> Len(sink) + 1,
                            last |-> Len(sink) + Len(outcome.msgs),
                            exc |-> outcome.exc])
    /\ IF outcome.exc = "none"
       THEN /\ pc' = next
            /\ raised' = raised
            /\ idx' = IF next = "loop" THEN idx + 1 ELSE idx
       ELSE /\ pc' = "raised"
            /\ raised' = outcome.exc
            /\ idx' = idx
    /\ UNCHANGED <<project, disk, dateparser, item_id, item_files,
                   item_metadata, path_to_mets, tree, arg, ret>>

ValidateRoot == RunSection("root", validate_root_element, "header")

ValidateHeader == RunSection("header", validate_mets_header, "dmd")

ValidateDmd == RunSection("dmd", validate_descriptive_metadata, "amd")

ValidateAmd == RunSection("amd", validate_administrative_metadata, "filesec")

ValidateFileSec == RunSection("filesec", validate_file_section, "structmap")

ValidateStructMap == RunSection("structmap", validate_structural_map_section, "loop")

validate_mets ==
    \/ LoopEnd
    \/ SkipItem
    \/ ParseItem
    \/ ValidateRoot
    \/ ValidateHeader
    \/ ValidateDmd
    \/ ValidateAmd
    \/ ValidateFileSec
    \/ ValidateStructMap

Next == validate_mets

Spec == Init /\ [][Next]_vars

-----------------------------------------------------------------------------
(* The helpers called on their own: sanitize_text and check_dates over     *)
(* bounded sets of arguments.                                              *)

\* the validator's fields while a helper is called on its own
Idle ==
    /\ project = [items |-> <<>>, metadata |-> [item_metadata |-> <<>>]]
    /\ disk = <<>>
    /\ idx = 1
    /\ pc = "call"
    /\ item_id = IdOf(1)
    /\ item_files = NotSet
    /\ item_metadata = NotSet
    /\ path_to_mets = PathJoin(PathOf(1), N_mets_xml)
    /\ tree = NoElement
    /\ sink = <<>>
    /\ ran = <<>>
    /\ raised = "none"
    /\ ret = NotSet

\* the longest text sanitize_text is given
MaxTextLen == 5

TextAlphabet ==
    {" ", "\n", "LDQUO", "RDQUO", "\"", "'", "-", ";", "HELLIP", "&", "a"}

Texts == UNION {[1..n -> TextAlphabet] : n \in 0..MaxTextLen}

InitSanitize ==
    /\ Idle
    /\ dateparser = BatchParser
    /\ arg \in Texts \cup {None}

CallSanitize ==
    /\ pc = "call"
    /\ ret' = sanitize_text(arg)
    /\ pc' = "returned"
    /\ UNCHANGED <<project, disk, dateparser, idx, item_id, item_files,
                   item_metadata, path_to_mets, tree, sink, ran, raised, arg>>

NextSanitize == CallSanitize

SpecSanitize == InitSanitize /\ [][NextSanitize]_vars

MetadataDates == {D_Jan1, D_Jan1_x, D_Undated, D_undated, D_dash, None}

MetsDates == {D_iso1, D_iso2, D_Jan1, D_undated, <<>>, None}

InitDates ==
    /\ Idle
    /\ dateparser \in ParserTables
    /\ arg \in [metadata_date : MetadataDates, mets_date : MetsDates]

CallCheckDates ==
    LET outcome == check_dates(arg.metadata_date, arg.mets_date)
    IN  /\ pc = "call"
        /\ ret' = outcome
        /\ sink' = Record(outcome.msgs)
        /\ pc' = IF outcome.exc = "none" THEN "returned" ELSE "raised"
        /\ raised' = outcome.exc
        /\ UNCHANGED <<project, disk, dateparser, idx, item_id, item_files,
                       item_metadata, path_to_mets, tree, ran, arg>>

NextDates == CallCheckDates

SpecDates == InitDates /\ [][NextDates]_vars

-----------------------------------------------------------------------------
(* What the properties are stated with *)

Items == project.items

Sections == <<"root", "header", "dmd", "amd", "filesec", "structmap">>

HasXml(k) == Items[k].files.xml /= <<>>

MetsPath(k) == PathJoin(Items[k].path, Items[k].files.xml[1])

WellFormed(k) == disk[MetsPath(k)].wellformed

\* the root element of item k's document
RootOf(k) == disk[MetsPath(k)].root

\* item k's turn of the loop has begun and is over
Over(k) == idx > k \/ (idx = k /\ pc = "raised")

\* the section validators called for item k, in the order of the calls
CallsFor(k) ==
    LET runs == SelectSeq(ran, LAMBDA r : r.item = k)
    IN  [i \in 1..Len(runs) |-> runs[i].section]

\* the findings one call recorded
FindingsOf(r) == SubSeq(sink, r.first, r.last)

Errors(findings) == SelectSeq(findings, LAMBDA f : f.level = "error")

Warnings(findings) == SelectSeq(findings, LAMBDA f : f.level = "warning")

\* how many of the findings are of this kind and about this
CountOf(findings, kind, about) ==
    Len(SelectSeq(findings, LAMBDA f : f.kind = kind /\ f.about = about))

RunsOfSection(section) ==
    {i \in 1..Len(ran) : ran[i].section = section /\ WellFormed(ran[i].item)}

-----------------------------------------------------------------------------
(* C1: for every item whose METS file parses, validate_mets runs the six   *)
(* section validators once each, in the order root, header, descriptive    *)
(* metadata, administrative metadata, file section, structural map,        *)
(* whatever the earlier ones recorded.                                     *)
C1_AllSixInOrder ==
    \A k \in 1..Len(Items) :
        (HasXml(k) /\ WellFormed(k) /\ Over(k)) => CallsFor(k) = Sections

(* C2: nothing but the unsupported-mode fault of check_tag_attrib leaves a *)
(* section validator as an exception: validate_mets is never left by a     *)
(* TypeError or an AttributeError, so the items after the current one are  *)
(* validated.                                                              *)
C2_NoExceptionEscapes ==
    /\ raised \in {"none", "SystemExit"}
    /\ pc = "done" =>
            \A k \in 1..Len(Items) :
                (HasXml(k) /\ WellFormed(k)) => CallsFor(k) = Sections

(* C3: when an item's METS file fails to parse, exactly one error, "mets   *)
(* xml is not valid", is recorded for the item, no section validator runs  *)
(* for it (a validator only ever runs on the tree parsed from the current  *)
(* item's file), and the loop goes on to the next item.                    *)
C3_ParseFailureSkipsItem ==
    /\ \A k \in 1..Len(Items) :
            (HasXml(k) /\ ~WellFormed(k) /\ (idx > k \/ (idx = k /\ pc /= "loop"))) =>
                LET mine == SelectSeq(sink, LAMBDA f : f.item = Items[k].id)
                IN  /\ Len(mine) = 1
                    /\ mine[1].level = "error"
                    /\ mine[1].kind = "mets xml is not valid"
                    /\ CallsFor(k) = <<>>
                    /\ idx > k
    /\ \A i \in 1..Len(Sections) :
            pc = Sections[i] => HasXml(idx) /\ WellFormed(idx) /\ tree = RootOf(idx)

\* a failed parse is behind and the next item is being validated
C3_Witness ==
    /\ idx = 2
    /\ HasXml(1) /\ ~WellFormed(1)
    /\ pc = "header"
    /\ Len(sink) >= 1


\* the section element the validator of a call looked up, where there is
\* exactly one
SectionElements(r, tag) == xpath(RootOf(r.item), <<"mets:mets", tag>>)

\* len(wav) + len(mp3) + len(txt) of an item
ExpectedTechMDs(k) ==
    Len(Items[k].files.wav) + Len(Items[k].files.mp3) + Len(Items[k].files.txt)

(* C4: with amdSec present, validate_administrative_metadata asks for      *)
(* exactly count(wav)+count(mp3)+count(txt) techMD children: one           *)
(* cardinality error and exists=false if and only if the number of techMD  *)
(* children differs from that count, no error of check_subelements_exist   *)
(* and exists=true when they are equal, for every count, zero included.    *)
C4_TechMDCardinality ==
    \A i \in RunsOfSection("amd") :
        LET r == ran[i]
            amd == SectionElements(r, "mets:amdSec")
            actual == Len(findall(amd[1], <<"mets:techMD">>))
            expected == ExpectedTechMDs(r.item)
            found == FindingsOf(r)
        IN  Len(amd) = 1 =>
                /\ CountOf(found, "subelements found, expected", <<"mets:techMD">>)
                        = IF actual /= expected THEN 1 ELSE 0
                /\ CountOf(found, "No subelements found", <<"mets:techMD">>) = 0
                /\ check_subelements_exist(amd[1], <<"mets:techMD">>, expected).exist
                        <=> (actual = expected)

\* the FILEID values as the claim reads them: trimmed, a leading "mdp."
\* taken off
ClaimedFileId(file_id) ==
    LET t == StrStrip(file_id)
    IN  StrStrip(IF StartsWith(t, S_mdp) THEN Drop(t, Len(S_mdp)) ELSE t)

(* C5: when structMap has one top-level div with at least one nested div,  *)
(* validate_structural_map_section records no error if the fptr FILEID     *)
(* values, each without its leading "mdp." and trimmed, are the wav and    *)
(* mp3 filenames once both lists are sorted, and exactly one mismatch      *)
(* error otherwise.  Stated for the documents whose fptr all have a        *)
(* FILEID.                                                                 *)
C5_FilePointersMatch ==
    \A i \in RunsOfSection("structmap") :
        LET r == ran[i]
            smap == SectionElements(r, "mets:structMap")
            divs == findall(smap[1], <<"mets:div">>)
            nested == findall(divs[1], <<"mets:div">>)
            fptrs == FilePointerElements(nested)
            ids == [j \in 1..Len(fptrs) |-> Get(fptrs[j].attrib, "FILEID")]
            expected == Items[r.item].files.wav \o Items[r.item].files.mp3
            match == /\ \A j \in 1..Len(ids) : ids[j] /= None
                     /\ Sorted([j \in 1..Len(ids) |-> ClaimedFileId(ids[j])])
                            = Sorted(expected)
            found == FindingsOf(r)
        IN  (/\ Len(smap) = 1 /\ Len(divs) = 1 /\ Len(nested) >= 1
             /\ \A j \in 1..Len(ids) : ids[j] /= None) =>
                /\ Len(Errors(found)) = IF match THEN 0 ELSE 1
                /\ ~match =>
                        found[1].kind = "structMap fileptr IDs do not match expected"

\* the calls of validate_descriptive_metadata for items without a row in
\* the metadata export
DmdRunsWithoutMetadata ==
    {i \in RunsOfSection("dmd") :
        Items[ran[i].item].id \notin DOMAIN project.metadata.item_metadata}

(* C6 as claimed: for an item with no spreadsheet metadata entry,          *)
(* validate_descriptive_metadata records exactly one warning and no error, *)
(* whatever the document has for dmdSec.                                   *)
C6_OneWarningWhateverDmdSec ==
    \A i \in DmdRunsWithoutMetadata :
        /\ Len(Warnings(FindingsOf(ran[i]))) = 1
        /\ Len(Errors(FindingsOf(ran[i]))) = 0

(* C6 as amended: for an item with no spreadsheet metadata entry,          *)
(* validate_descriptive_metadata records exactly one warning and no error  *)
(* when the document has exactly one dmdSec, whatever is in it; when       *)
(* dmdSec is absent or there are several, it records exactly one error and *)
(* no warning.                                                             *)
C6_OneWarningWhenOneDmdSec ==
    \A i \in DmdRunsWithoutMetadata :
        LET found == FindingsOf(ran[i])
            dmd == SectionElements(ran[i], "mets:dmdSec")
        IN  IF Len(dmd) = 1
            THEN /\ Len(Warnings(found)) = 1
                 /\ Len(Errors(found)) = 0
                 /\ found[1].kind = "item has no associated metadata"
            ELSE /\ Len(Warnings(found)) = 0
                 /\ Len(Errors(found)) = 1
                 /\ found[1].kind = IF Len(dmd) = 0 THEN "no element"
                                    ELSE "multiple elements"

\* the validator has run for an item without metadata whose one dmdSec has
\* nothing in it
C6_Witness ==
    \E i \in DmdRunsWithoutMetadata :
        LET dmd == SectionElements(ran[i], "mets:dmdSec")
        IN  Len(dmd) = 1 /\ dmd[1].children = <<>>

\* what the two attribute checks of the root element record
AttribErrors(findings, attribute) ==
    CountOf(findings, "attribute does not exists", attribute)
    + CountOf(findings, "attribute does not equal", attribute)

(* C8: when the root mets element exists, validate_root_element records    *)
(* exactly one namespace error for each of the six required prefixes that  *)
(* is missing from the root's namespace map or mapped to another URI, none *)
(* for the others, and checks OBJID against the item id and TYPE against   *)
(* "AUDIO RECORDING" whatever the number of namespace errors.              *)
C8_NamespacesAndAttributes ==
    \A i \in RunsOfSection("root") :
        LET r == ran[i]
            root == RootOf(r.item)
            found == FindingsOf(r)
            bad == {ns \in DOMAIN namespaces :
                        ns \notin DOMAIN root.nsmap \/ root.nsmap[ns] /= namespaces[ns]}
            wrong(attribute, value) ==
                attribute \notin DOMAIN root.attrib \/ root.attrib[attribute] /= value
            objid == IF wrong("OBJID", Items[r.item].id) THEN 1 ELSE 0
            type == IF wrong("TYPE", S_AUDIO_RECORDING) THEN 1 ELSE 0
        IN  root.tag = "mets:mets" =>
                /\ \A ns \in DOMAIN namespaces :
                        CountOf(found, "missing namespace", ns)
                            = IF ns \in bad THEN 1 ELSE 0
                /\ AttribErrors(found, "OBJID") = objid
                /\ AttribErrors(found, "TYPE") = type
                /\ Len(found) = Cardinality(bad) + objid + type
                /\ r.exc = "none"

\* the validator has run on a root that lacks the mods namespace and whose
\* OBJID is not the item id
C8_Witness ==
    \E i \in RunsOfSection("root") :
        LET root == RootOf(ran[i].item)
        IN  /\ root.tag = "mets:mets"
            /\ "mods" \notin DOMAIN root.nsmap
            /\ "OBJID" \in DOMAIN root.attrib
            /\ root.attrib["OBJID"] /= Items[ran[i].item].id
            /\ Len(FindingsOf(ran[i])) = 2

(* C9: every finding carries the id and the METS path of the item the loop *)
(* is at when it is recorded; findings are only ever appended to the sink; *)
(* none is recorded for an item without an XML file.                       *)
C9_FindingsAttributed ==
    [][ /\ Len(sink') >= Len(sink)
        /\ SubSeq(sink', 1, Len(sink)) = sink
        /\ \A i \in (Len(sink) + 1)..Len(sink') :
                /\ idx <= Len(Items)
                /\ HasXml(idx)
                /\ sink'[i].item = Items[idx].id
                /\ sink'[i].path = MetsPath(idx) ]_vars

\* the sink holds findings of two items
C9_Witness ==
    \E i, j \in 1..Len(sink) : sink[i].item /= sink[j].item

(* C7: the output of sanitize_text has no double quote, straight or curly, *)
(* no hyphen, semicolon, apostrophe or ellipsis, no "&", no whitespace at  *)
(* either end and no run of two or more whitespace characters; it is the   *)
(* empty string for None.                                                  *)
C7_SanitizedClean ==
    pc = "returned" =>
        /\ arg = None => ret = <<>>
        /\ \A i \in 1..Len(ret) :
                ret[i] \notin {"\"", "LDQUO", "RDQUO", "-", ";", "'", "HELLIP", "&"}
        /\ ret /= <<>> => ret[1] \notin Whitespace /\ ret[Len(ret)] \notin Whitespace
        /\ \A i \in 1..(Len(ret) - 1) :
                ~(ret[i] \in Whitespace /\ ret[i + 1] \in Whitespace)

(* C10: check_dates records exactly one error if the parsed sanitized      *)
(* metadata date differs from the parsed mets date and so does the parsed  *)
(* sanitized metadata date less its last character, and none otherwise;    *)
(* for "Undated" against "undated" it records none.                        *)
C10_DatesReconciled ==
    (pc = "returned" /\ arg.mets_date /= None) =>
        LET md == sanitize_text(arg.metadata_date)
            differ == /\ dateparser[md] /= dateparser[arg.mets_date]
                      /\ dateparser[DropLast(md)] /= dateparser[arg.mets_date]
        IN  /\ Len(sink) = IF differ THEN 1 ELSE 0
            /\ \A i \in 1..Len(sink) :
                    sink[i].level = "error" /\ sink[i].kind = "date does not equal"
            /\ (arg.metadata_date = D_Undated /\ arg.mets_date = D_undated) => sink = <<>>

\* check_dates has returned without an error because only the date less
\* its last character parses to the date in the METS
C10_Witness ==
    /\ pc = "returned"
    /\ arg.metadata_date = D_Jan1_x
    /\ arg.mets_date = D_iso1
    /\ dateparser[D_Jan1_x] /= dateparser[D_iso1]
    /\ sink = <<>>

=============================================================================
